---------------------------- MODULE Spec2Model ----------------------------
(* A model of src/pview.py: the ParquetViewer window (dataset slot, paging    *)
(* offset, file watcher, reload prompt, session settings) together with the   *)
(* file system it reads and the change notifications the watcher delivers.    *)
EXTENDS Integers, Sequences, FiniteSets, TLC

(* ------------------------------------------------------------------------ *)
(* Program constants and the bounds of the model                             *)
(* ------------------------------------------------------------------------ *)

PAGE_SIZE == 10000

MAX_RECENT_FILES == 10

\* Other programs rewrite the files at most MaxWrites times in all.
MaxWrites == 1

\* Reload prompts nest at most MaxPrompts deep (a prompt runs an event loop).
MaxPrompts == 2

Paths == {"a", "b"}

NoPath == "none"

NoMtime == -1

\* Tables a parquet file may hold: within one page, exactly two full pages,
\* and one row into a third page; the two-page table has a second column.
Tables == {[height |-> 1, width |-> 1],
           [height |-> 2 * PAGE_SIZE, width |-> 2],
           [height |-> 2 * PAGE_SIZE + 1, width |-> 1]}

Heights == {t.height : t \in Tables}

\* The column count of the table of h rows.
WidthOf(h) == (CHOOSE t \in Tables : t.height = h).width

RECURSIVE SumMtime(_, _)

\* The number of rewrites the files in S have seen.
SumMtime(files, S) ==
    IF S = {} THEN 0
    ELSE LET p == CHOOSE x \in S : TRUE
         IN  files[p].mtime + SumMtime(files, S \ {p})

Min(x, y) == IF x < y THEN x ELSE y

Max(x, y) == IF x > y THEN x ELSE y

(* ------------------------------------------------------------------------ *)
(* State                                                                     *)
(* ------------------------------------------------------------------------ *)

VARIABLES
    fs,                 \* the file system: path -> [kind, height, width, mtime]
    pending,            \* fileChanged signals emitted and not yet delivered
    df,                 \* self.df
    current_offset,     \* self.current_offset
    current_file_path,  \* self.current_file_path
    current_file_mtime, \* self.current_file_mtime
    watched,            \* self.file_watcher.files()
    prompts,            \* open "File Modified" dialogs, innermost last
    status,             \* self.status_label text
    tableModel,         \* the model set on self.table_view
    columnList,         \* the dataset whose columns self.column_list shows
    btnPrev,            \* self.btn_prev.isEnabled()
    btnNext,            \* self.btn_next.isEnabled()
    btnReopen,          \* self.btn_reopen.isEnabled()
    recentFiles,        \* QSettings "recentFiles"
    lastFilePath,       \* QSettings "lastFilePath"
    lastFileOffset,     \* QSettings "lastFileOffset"
    seenNotif,          \* history: the last signal delivered since the last
                        \* user load, the mtime its handler read, and
                        \* whether a Yes answer was the last step
    watchPeak           \* history: most paths watched at once in the last step

appVars == <<df, current_offset, current_file_path, current_file_mtime,
             watched, status, tableModel, columnList, btnPrev, btnNext,
             btnReopen>>

settingsVars == <<recentFiles, lastFilePath, lastFileOffset>>

vars == <<fs, pending, df, current_offset, current_file_path,
          current_file_mtime, watched, prompts, status, tableModel,
          columnList, btnPrev, btnNext, btnReopen, recentFiles, lastFilePath,
          lastFileOffset, seenNotif, watchPeak>>

(* ------------------------------------------------------------------------ *)
(* Values                                                                    *)
(* ------------------------------------------------------------------------ *)

\* self.df = None
NoDf == [src |-> NoPath, height |-> 0, width |-> 0]

\* A slip: the read answers from the installed dataset when the path is the
\* same.
ReadCached(p) ==
    IF df.src = p THEN df
    ELSE [src |-> p, height |-> fs[p].height, width |-> fs[p].width]

\* The table pl.read_parquet returns for a readable file.
ReadParquet(p) ==
    [src |-> p, height |-> fs[p].height, width |-> fs[p].width]

\* pl.read_parquet succeeds on a file that exists and decodes.
Readable(p) == fs[p].kind = "parquet"

\* os.path.exists
Exists(p) == fs[p].kind # "missing"

\* table_view.setModel(None)
NoModel == [src |-> NoPath, height |-> 0, offset |-> 0, rows |-> 0]

StatusNoFile == [kind |-> "nofile", path |-> NoPath, start |-> 0, end |-> 0,
                 total |-> 0]

StatusError(p) == [kind |-> "error", path |-> p, start |-> 0, end |-> 0,
                   total |-> 0]

StatusNotFound(p) == [kind |-> "notfound", path |-> p, start |-> 0, end |-> 0,
                      total |-> 0]

\* "Showing rows {start} - {end} of {height}"
StatusShowing(offset, height) ==
    [kind |-> "showing", path |-> NoPath, start |-> offset + 1,
     end |-> Min(offset + PAGE_SIZE, height), total |-> height]

\* Rows of df.slice(offset, PAGE_SIZE) for offset >= 0.
SliceRows(height, offset) ==
    IF offset >= height THEN 0 ELSE Min(PAGE_SIZE, height - offset)

\* PolarsTableModel(page_df, offset)
PageModel(d, offset) ==
    [src |-> d.src, height |-> d.height, offset |-> offset,
     rows |-> SliceRows(d.height, offset)]

NoNotif == [path |-> NoPath, mtime |-> NoMtime, reloaded |-> FALSE]

NoColumns == [src |-> NoPath, height |-> 0, width |-> 0]

(* ------------------------------------------------------------------------ *)
(* Pieces of load_parquet_data and of the handlers                           *)
(* ------------------------------------------------------------------------ *)

\* A slip: the watch is dropped only when its file is gone.
WatchRemovedIfGone(files, cur) ==
    IF cur # NoPath /\ cur \in files /\ ~Exists(cur)
    THEN files \ {cur}
    ELSE files

\* A slip: the old path is left in the watcher.
WatchNotRemoved(files, cur) == files

\* file_watcher.removePath(current_file_path) when that path is watched.
WatchAfterRemove(files, cur) ==
    IF cur # NoPath /\ cur \in files THEN files \ {cur} ELSE files

\* A slip: the load forgets file_watcher.addPath.
WatchNotAdded(files, p) == files

\* file_watcher.addPath(current_file_path) after a successful read.
WatchAfterAdd(files, p) == files \cup {p}

\* A slip: every load starts at the first page.
LoadOffsetZero(offset, height) == 0

\* The offset a load installs: the requested one, as it is.
LoadOffset(offset, height) == offset

\* A slip: the except branch leaves self.df alone.
DfKeptOnFailure(old) == old

\* The except branch: self.df = None.
DfAfterFailedLoad(old) == NoDf

\* A slip: the path is not removed before it is inserted.
RemoveNone(seq, x) == seq

\* recent_files.remove(file_path): the first occurrence only.
RemoveFirst(seq, x) ==
    IF \E i \in 1..Len(seq) : seq[i] = x
    THEN LET i == CHOOSE j \in 1..Len(seq) :
                      seq[j] = x /\ \A k \in 1..(j - 1) : seq[k] # x
         IN  SubSeq(seq, 1, i - 1) \o SubSeq(seq, i + 1, Len(seq))
    ELSE seq

\* A slip: the list is never cut.
TruncateNever(seq, n) == seq

\* del recent_files[MAX_RECENT_FILES:]
Truncate(seq, n) == IF Len(seq) > n THEN SubSeq(seq, 1, n) ELSE seq

\* A slip: the path is appended, the list cut at its front.
AppendToRecentFiles(recent, file_path) ==
    LET all == RemoveFirst(recent, file_path) \o <<file_path>>
    IN  IF Len(all) > MAX_RECENT_FILES
        THEN SubSeq(all, Len(all) - MAX_RECENT_FILES + 1, Len(all))
        ELSE all

\* add_to_recent_files
AddToRecentFiles(recent, file_path) ==
    Truncate(<<file_path>> \o RemoveFirst(recent, file_path), MAX_RECENT_FILES)

\* A slip: the list is written before the read is known to be good.
RecentBeforeRead(recent, file_path, ok) == AddToRecentFiles(recent, file_path)

\* The recent-files list a load attempt leaves: written after a good read only.
RecentAfterLoad(recent, file_path, ok) ==
    IF ok THEN AddToRecentFiles(recent, file_path) ELSE recent

\* settings "lastFilePath" after a load attempt: written after a good read only.
LastFileAfterLoad(lastp, file_path, ok) == IF ok THEN file_path ELSE lastp

\* update_button_state
PrevEnabled(d, offset) == d # NoDf /\ offset > 0

\* A slip: <= for <.
NextEnabledOffByOne(d, offset) == d # NoDf /\ offset + PAGE_SIZE <= d.height

NextEnabled(d, offset) == d # NoDf /\ offset + PAGE_SIZE < d.height

\* update_reopen_button_state
ReopenEnabled(lastp, files) == lastp # NoPath /\ files[lastp].kind # "missing"

\* A slip: a load made while a file is current keeps the earlier path.
PathOfEarlierLoad(cur, file_path) == IF cur = NoPath THEN file_path ELSE cur

\* self.current_file_path = file_path
PathAfterLoad(cur, file_path) == file_path

\* load_parquet_data(file_path, offset). The file system does not move while
\* the handler runs: the read either succeeds or raises.
Load(file_path, offset) ==
    LET ok      == Readable(file_path)
        removed == WatchAfterRemove(watched, current_file_path)
        newdf   == ReadParquet(file_path)
        off     == LoadOffset(offset, newdf.height)
        newpath == PathAfterLoad(current_file_path, file_path)
        added   == WatchAfterAdd(removed, newpath)
    IN  /\ UNCHANGED fs
        /\ IF ok
           THEN /\ df' = newdf
                /\ current_offset' = off
                /\ current_file_path' = newpath
                /\ current_file_mtime' = fs[file_path].mtime
                /\ watched' = added
                /\ watchPeak' = Max(Cardinality(watched),
                                    Max(Cardinality(removed), Cardinality(added)))
                /\ columnList' = newdf
                /\ tableModel' = PageModel(newdf, off)
                /\ status' = StatusShowing(off, newdf.height)
           ELSE /\ df' = DfAfterFailedLoad(df)
                /\ UNCHANGED <<current_offset, current_file_path,
                               current_file_mtime, columnList, tableModel>>
                /\ watched' = removed
                /\ watchPeak' = Max(Cardinality(watched), Cardinality(removed))
                /\ status' = StatusError(file_path)
        /\ recentFiles' = RecentAfterLoad(recentFiles, file_path, ok)
        /\ lastFilePath' = LastFileAfterLoad(lastFilePath, file_path, ok)
        /\ UNCHANGED lastFileOffset
        /\ btnReopen' = ReopenEnabled(lastFilePath', fs)
        /\ btnPrev' = PrevEnabled(df', current_offset')
        /\ btnNext' = NextEnabled(df', current_offset')

(* ------------------------------------------------------------------------ *)
(* Initial state: a first launch with empty settings                         *)
(* ------------------------------------------------------------------------ *)

FileStates ==
    [kind : {"missing"}, height : {0}, width : {0}, mtime : {0}]
        \cup {[kind |-> "parquet", height |-> t.height, width |-> t.width,
               mtime |-> 0] : t \in Tables}

\* The two paths are interchangeable (no operation tells them apart), so
\* the initial file systems are taken up to renaming: a is missing when one
\* of the two is, and holds the shorter table otherwise.
UpToRenaming(files) ==
    \/ files["a"].kind = "missing"
    \/ /\ files["b"].kind # "missing"
       /\ files["a"].height <= files["b"].height

Init ==
    /\ fs \in [Paths -> FileStates]
    /\ UpToRenaming(fs)
    /\ pending = {}
    /\ df = NoDf
    /\ current_offset = 0
    /\ current_file_path = NoPath
    /\ current_file_mtime = NoMtime
    /\ watched = {}
    /\ prompts = <<>>
    /\ status = StatusNoFile
    /\ tableModel = NoModel
    /\ columnList = NoColumns
    /\ btnPrev = FALSE
    /\ btnNext = FALSE
    /\ btnReopen = FALSE
    /\ recentFiles = <<>>
    /\ lastFilePath = NoPath
    /\ lastFileOffset = 0
    /\ seenNotif = NoNotif
    /\ watchPeak = 0

(* ------------------------------------------------------------------------ *)
(* User operations (possible only while no reload prompt is open)            *)
(* ------------------------------------------------------------------------ *)

Idle == prompts = <<>>

\* The signal history after a step that is not a Yes answer and loads
\* nothing.
NotReloaded == [seenNotif EXCEPT !.reloaded = FALSE]

\* open_file: the dialog returns an existing file, which is then loaded.
OpenFile(p) ==
    /\ Idle
    /\ Exists(p)
    /\ Load(p, 0)
    /\ seenNotif' = NoNotif
    /\ UNCHANGED <<pending, prompts>>

\* A "Recent Files" menu entry: load_parquet_data(path).
OpenRecent(p) ==
    /\ Idle
    /\ \E i \in 1..Len(recentFiles) : recentFiles[i] = p
    /\ Load(p, 0)
    /\ seenNotif' = NoNotif
    /\ UNCHANGED <<pending, prompts>>

\* reopen_last_file, by the Reopen button
ReopenLastFile ==
    /\ Idle
    /\ btnReopen
    /\ IF lastFilePath # NoPath /\ Exists(lastFilePath)
       THEN /\ Load(lastFilePath, lastFileOffset)
            /\ seenNotif' = NoNotif
       ELSE /\ btnReopen' = ReopenEnabled(lastFilePath, fs)
            /\ watchPeak' = Cardinality(watched)
            /\ UNCHANGED <<fs, df, current_offset, current_file_path,
                           current_file_mtime, watched, status, tableModel,
                           columnList, btnPrev, btnNext, settingsVars>>
            /\ seenNotif' = NotReloaded
    /\ UNCHANGED <<pending, prompts>>

\* update_table_view
UpdateTableView(offset) ==
    IF df = NoDf
    THEN /\ status' = StatusNoFile
         /\ tableModel' = NoModel
         /\ UNCHANGED <<btnPrev, btnNext>>
    ELSE /\ tableModel' = PageModel(df, offset)
         /\ status' = StatusShowing(offset, df.height)
         /\ btnPrev' = PrevEnabled(df, offset)
         /\ btnNext' = NextEnabled(df, offset)

\* A slip: no clamp at the first page.
PrevOffsetUnclamped(offset) == offset - PAGE_SIZE

\* The offset go_previous sets.
PrevOffset(offset) == Max(0, offset - PAGE_SIZE)

\* A slip: Next stops where the last page shown is a full one.
NextOffsetFullPage(d, offset) ==
    IF d # NoDf
    THEN Min(offset + PAGE_SIZE, Max(0, d.height - PAGE_SIZE))
    ELSE offset

\* The offset go_next leaves: a page on when one follows, else no move.
NextOffset(d, offset) ==
    IF d # NoDf /\ offset + PAGE_SIZE < d.height
    THEN offset + PAGE_SIZE
    ELSE offset

\* go_previous, by the Previous button
GoPrevious ==
    /\ Idle
    /\ btnPrev
    /\ current_offset' = PrevOffset(current_offset)
    /\ UpdateTableView(current_offset')
    /\ watchPeak' = Cardinality(watched)
    /\ UNCHANGED <<fs, pending, df, current_file_path, current_file_mtime,
                   watched, prompts, columnList, btnReopen, settingsVars>>
    /\ seenNotif' = NotReloaded

\* go_next, by the Next button
GoNext ==
    /\ Idle
    /\ btnNext
    /\ IF df # NoDf /\ current_offset + PAGE_SIZE < df.height
       THEN /\ current_offset' = NextOffset(df, current_offset)
            /\ UpdateTableView(current_offset')
       ELSE UNCHANGED <<current_offset, status, tableModel, btnPrev, btnNext>>
    /\ watchPeak' = Cardinality(watched)
    /\ UNCHANGED <<fs, pending, df, current_file_path, current_file_mtime,
                   watched, prompts, columnList, btnReopen, settingsVars>>
    /\ seenNotif' = NotReloaded

\* settings.setValue("recentFiles", [])
RecentAfterClear(recent) == <<>>

\* A slip: the clear wipes the whole settings store.
LastFileWiped(lastp) == NoPath

\* clear_recent_files writes no other key.
LastFileAfterClear(lastp) == lastp

\* clear_recent_files, by the "Clear List" menu entry
ClearRecentFiles ==
    /\ Idle
    /\ recentFiles # <<>>
    /\ recentFiles' = RecentAfterClear(recentFiles)
    /\ lastFilePath' = LastFileAfterClear(lastFilePath)
    /\ watchPeak' = Cardinality(watched)
    /\ seenNotif' = NotReloaded
    /\ UNCHANGED <<fs, pending, appVars, prompts, lastFileOffset>>

\* closeEvent's writes of the last position, <<lastFilePath, lastFileOffset>>,
\* for a viewer at (path, offset) over settings (lastp, lasto).
SettingsAtClose(path, offset, lastp, lasto) ==
    IF path # NoPath THEN <<path, offset>> ELSE <<lastp, lasto>>

LastFileAtClose ==
    SettingsAtClose(current_file_path, current_offset,
                    lastFilePath, lastFileOffset)[1]

LastOffsetAtClose ==
    SettingsAtClose(current_file_path, current_offset,
                    lastFilePath, lastFileOffset)[2]

\* closeEvent, then a new ParquetViewer() over the same settings.
Relaunch ==
    /\ Idle
    /\ lastFilePath' = LastFileAtClose
    /\ lastFileOffset' = LastOffsetAtClose
    /\ UNCHANGED <<fs, recentFiles>>
    /\ pending' = {}
    /\ df' = NoDf
    /\ current_offset' = 0
    /\ current_file_path' = NoPath
    /\ current_file_mtime' = NoMtime
    /\ watched' = {}
    /\ prompts' = <<>>
    /\ status' = StatusNoFile
    /\ tableModel' = NoModel
    /\ columnList' = NoColumns
    /\ btnPrev' = FALSE
    /\ btnNext' = FALSE
    /\ btnReopen' = ReopenEnabled(lastFilePath', fs)
    /\ seenNotif' = NoNotif
    /\ watchPeak' = 0

(* ------------------------------------------------------------------------ *)
(* The watcher's signal and the reload prompt                                *)
(* ------------------------------------------------------------------------ *)

\* A slip: the path of the signal is not compared with the current one.
IgnoresOnlyWhenNoFile(path) == current_file_path = NoPath

\* The first test of handle_file_change: signals for another path are dropped.
IgnoresSignal(path) == path # current_file_path \/ current_file_path = NoPath

\* The second test: the mtime read equals the stored one.
SameMtime(new_mtime) == new_mtime = current_file_mtime

\* A slip: No leaves the stored mtime as it was.
MtimeNotUpdated(new_mtime) == current_file_mtime

\* The stored mtime after the user answers No.
MtimeAfterDecline(new_mtime) == new_mtime

\* A slip: the watch is left in place when the file is gone.
WatchKeptWhenLost(files, path) == files

\* file_watcher.removePath(path) in the FileNotFoundError handler
WatchAfterLost(files, path) == files \ {path}

\* handle_file_change(path), up to the point where the dialog opens.
HandleFileChange(path) ==
    /\ path \in pending
    /\ pending' = pending \ {path}
    /\ watchPeak' = Cardinality(watched)
    /\ UNCHANGED <<fs, df, current_offset, current_file_path,
                   current_file_mtime, tableModel, columnList, btnPrev,
                   btnNext, btnReopen, settingsVars>>
    /\ IF IgnoresSignal(path)
       THEN /\ seenNotif' = [path |-> path, mtime |-> NoMtime,
                              reloaded |-> FALSE]
            /\ UNCHANGED <<watched, status, prompts>>
       ELSE IF ~Exists(path)
       THEN /\ watched' = WatchAfterLost(watched, path)
            /\ status' = StatusNotFound(path)
            /\ seenNotif' = NoNotif
            /\ UNCHANGED prompts
       ELSE IF SameMtime(fs[path].mtime)
       THEN /\ seenNotif' = [path |-> path, mtime |-> fs[path].mtime,
                              reloaded |-> FALSE]
            /\ UNCHANGED <<watched, status, prompts>>
       ELSE /\ Len(prompts) < MaxPrompts
            /\ prompts' = Append(prompts, [path |-> path,
                                           new_mtime |-> fs[path].mtime])
            /\ seenNotif' = [path |-> path, mtime |-> fs[path].mtime,
                              reloaded |-> FALSE]
            /\ UNCHANGED <<watched, status>>

\* The user answers Yes: load_parquet_data(path, offset=self.current_offset).
ConfirmReload ==
    /\ prompts # <<>>
    /\ Load(prompts[Len(prompts)].path, current_offset)
    /\ prompts' = SubSeq(prompts, 1, Len(prompts) - 1)
    /\ seenNotif' = [seenNotif EXCEPT !.reloaded = TRUE]
    /\ UNCHANGED pending

\* The user answers No: only the stored mtime moves.
DeclineReload ==
    /\ prompts # <<>>
    /\ current_file_mtime' = MtimeAfterDecline(prompts[Len(prompts)].new_mtime)
    /\ prompts' = SubSeq(prompts, 1, Len(prompts) - 1)
    /\ watchPeak' = Cardinality(watched)
    /\ UNCHANGED <<fs, pending, df, current_offset, current_file_path,
                   watched, status, tableModel, columnList, btnPrev, btnNext,
                   btnReopen, settingsVars>>
    /\ seenNotif' = NotReloaded

(* ------------------------------------------------------------------------ *)
(* The environment: other programs rewrite or delete files, and the          *)
(* watcher emits fileChanged for the paths it watches                        *)
(* ------------------------------------------------------------------------ *)

Emit(p) == IF p \in watched THEN pending \cup {p} ELSE pending

CanWrite == SumMtime(fs, Paths) < MaxWrites

EnvFrame ==
    /\ UNCHANGED <<appVars, prompts, settingsVars>>
    /\ seenNotif' = NotReloaded

\* Another program writes h rows to p; the mtime moves on.
WriteFile(p, h) ==
    /\ CanWrite
    /\ fs' = [fs EXCEPT ![p] = [kind |-> "parquet", height |-> h,
                                width |-> WidthOf(h),
                                mtime |-> fs[p].mtime + 1]]
    /\ pending' = Emit(p)
    /\ watchPeak' = Cardinality(watched)
    /\ EnvFrame

\* Another program leaves p in a state that does not decode.
CorruptFile(p) ==
    /\ CanWrite
    /\ fs' = [fs EXCEPT ![p] = [kind |-> "corrupt", height |-> 0,
                                width |-> 0,
                                mtime |-> fs[p].mtime + 1]]
    /\ pending' = Emit(p)
    /\ watchPeak' = Cardinality(watched)
    /\ EnvFrame

\* Another program removes p.
DeleteFile(p) ==
    /\ Exists(p)
    /\ fs' = [fs EXCEPT ![p] = [kind |-> "missing", height |-> 0,
                                width |-> 0, mtime |-> fs[p].mtime]]
    /\ pending' = Emit(p)
    /\ watchPeak' = Cardinality(watched)
    /\ EnvFrame

\* The platform reports one change more than once.
DuplicateSignal(p) ==
    /\ p \in watched
    /\ p \notin pending
    /\ pending' = pending \cup {p}
    /\ watchPeak' = Cardinality(watched)
    /\ UNCHANGED fs
    /\ EnvFrame

(* ------------------------------------------------------------------------ *)
(* Specification                                                             *)
(* ------------------------------------------------------------------------ *)

Next ==
    \/ \E p \in Paths : OpenFile(p)
    \/ \E p \in Paths : OpenRecent(p)
    \/ ReopenLastFile
    \/ GoPrevious
    \/ GoNext
    \/ ClearRecentFiles
    \/ Relaunch
    \/ \E p \in Paths : HandleFileChange(p)
    \/ ConfirmReload
    \/ DeclineReload
    \/ \E p \in Paths, h \in Heights : WriteFile(p, h)
    \/ \E p \in Paths : CorruptFile(p)
    \/ \E p \in Paths : DeleteFile(p)
    \/ \E p \in Paths : DuplicateSignal(p)

Spec == Init /\ [][Next]_vars

(* ------------------------------------------------------------------------ *)
(* The session store over many files: a recent-files list that fills up      *)
(* ------------------------------------------------------------------------ *)

\* The list ten successful opens (of p10 first, p01 last) leave.
RecentBase == <<"p01", "p02", "p03", "p04", "p05", "p06", "p07", "p08",
                "p09", "p10">>

\* Files never opened before.
MorePaths == {"p11", "p12"}

ManyPaths == {RecentBase[i] : i \in 1..Len(RecentBase)} \cup MorePaths

\* The files of this session: p07 no longer decodes, p08 is gone, p01 holds
\* two full pages, the others one row.
ManyFiles ==
    [p \in ManyPaths |->
        IF p = "p07"
        THEN [kind |-> "corrupt", height |-> 0, width |-> 0, mtime |-> 0]
        ELSE IF p = "p08"
        THEN [kind |-> "missing", height |-> 0, width |-> 0, mtime |-> 0]
        ELSE IF p = "p01"
        THEN [kind |-> "parquet", height |-> 2 * PAGE_SIZE, width |-> 2,
              mtime |-> 0]
        ELSE [kind |-> "parquet", height |-> 1, width |-> 1, mtime |-> 0]]

\* The paths the user picks in this session: the head, a middle entry and
\* the tail of the list, the two entries that fail, and the new files.
Picked == {"p01", "p04", "p07", "p08", "p10"} \cup MorePaths

\* A launch over the settings of earlier sessions: an empty list, a list one
\* short of full, or a full list, with its head as the last file.
InitRecent ==
    /\ fs = ManyFiles
    /\ pending = {}
    /\ df = NoDf
    /\ current_offset = 0
    /\ current_file_path = NoPath
    /\ current_file_mtime = NoMtime
    /\ watched = {}
    /\ prompts = <<>>
    /\ status = StatusNoFile
    /\ tableModel = NoModel
    /\ columnList = NoColumns
    /\ btnPrev = FALSE
    /\ btnNext = FALSE
    /\ recentFiles \in {SubSeq(RecentBase, 1, n) :
                            n \in {0, MAX_RECENT_FILES - 1, MAX_RECENT_FILES}}
    /\ lastFilePath = IF recentFiles = <<>> THEN NoPath ELSE recentFiles[1]
    /\ lastFileOffset = 0
    /\ btnReopen = ReopenEnabled(lastFilePath, fs)
    /\ seenNotif = NoNotif
    /\ watchPeak = 0

NextRecent ==
    \/ \E p \in Picked : OpenFile(p)
    \/ \E p \in Picked : OpenRecent(p)
    \/ ReopenLastFile
    \/ GoPrevious
    \/ GoNext
    \/ ClearRecentFiles
    \/ Relaunch

SpecRecent == InitRecent /\ [][NextRecent]_vars

(* ------------------------------------------------------------------------ *)
(* Steps the properties speak about                                          *)
(* ------------------------------------------------------------------------ *)

PromptTop == prompts[Len(prompts)]

\* The user opens p, a file other than the current one, and the read fails.
FailedOpenOfNewFile(p) ==
    /\ OpenFile(p) \/ OpenRecent(p)
    /\ p # current_file_path
    /\ ~Readable(p)

\* Some load attempt on p fails.
FailedLoad(p) ==
    /\ ~Readable(p)
    /\ \/ OpenFile(p)
       \/ OpenRecent(p)
       \/ ReopenLastFile /\ lastFilePath = p /\ Exists(p)
       \/ ConfirmReload /\ PromptTop.path = p

\* The page start the specification's reclamp rule gives.
Reclamp(offset, height) ==
    IF offset >= height
    THEN Max(0, ((height - 1) \div PAGE_SIZE) * PAGE_SIZE)
    ELSE offset

(* ------------------------------------------------------------------------ *)
(* Properties                                                                *)
(* ------------------------------------------------------------------------ *)

\* C1: whenever a dataset is installed, the current window lies inside it:
\* 0 <= offset, offset + rowCount <= height and rowCount <= PAGE_SIZE.
C1_WindowInvariant ==
    df # NoDf =>
        /\ 0 <= current_offset
        /\ current_offset + SliceRows(df.height, current_offset) <= df.height
        /\ SliceRows(df.height, current_offset) <= PAGE_SIZE

\* C2: a successful reload (confirmed change, or reopen-last with its saved
\* offset) installs the requested offset passed through the reclamp rule:
\* the last valid page start when the offset is >= the new height, the
\* offset itself otherwise.
C2_ReclampOnReload ==
    [][/\ (ConfirmReload /\ Readable(PromptTop.path)) =>
             current_offset' =
                 Reclamp(current_offset, fs[PromptTop.path].height)
       /\ (ReopenLastFile /\ lastFilePath # NoPath /\ Readable(lastFilePath)) =>
             current_offset' =
                 Reclamp(lastFileOffset, fs[lastFilePath].height)]_vars

\* C3: a failed open of a new file leaves the dataset slot as it was.
C3_FailedOpenKeepsDataset ==
    [][\A p \in Paths : FailedOpenOfNewFile(p) => df' = df]_vars

\* C4: a failed open of a new file leaves the watch target as it was: the
\* same path watched, the same modification time stored.
C4_FailedOpenKeepsWatch ==
    [][\A p \in Paths : FailedOpenOfNewFile(p) =>
            /\ watched' = watched
            /\ current_file_mtime' = current_file_mtime]_vars

\* C5: a load attempt that fails leaves the recent-files list and the
\* persisted last-file path exactly as they were.
C5_FailedLoadKeepsSession ==
    [][\A p \in Paths : FailedLoad(p) =>
            /\ recentFiles' = recentFiles
            /\ lastFilePath' = lastFilePath]_vars

\* C5 witness: a load of a file failed (the status names it) while the
\* session holds another file as most recent and as last file.
C5_Witness ==
    /\ status.kind = "error"
    /\ recentFiles # <<>>
    /\ recentFiles[1] # status.path
    /\ lastFilePath \in Paths \ {status.path}

C7_DuplicateFilter ==
    [][\A p \in Paths :
          (/\ HandleFileChange(p)
           /\ ~IgnoresSignal(p)
           /\ Exists(p)
           /\ seenNotif.path = p
           /\ seenNotif.mtime = fs[p].mtime) =>
              UNCHANGED <<prompts, appVars, settingsVars>>]_vars

C9_OneWatch ==
    /\ Cardinality(watched) <= 1
    /\ watchPeak <= 1

\* C9 witness: a file was watched in this run (its signal is still
\* pending) and another file has been opened and is the one watched now.
C9_Witness ==
    /\ \E p \in pending : p \notin watched
    /\ watched # {}
    /\ watched = {current_file_path}
    /\ df # NoDf

\* C10: with file B open, a signal for another file A changes nothing of
\* the viewer: no prompt, no reload, and B's dataset, offset, stored mtime
\* and watch stay as they were.
C10_StaleSignal ==
    [][\A p \in Paths :
          (/\ HandleFileChange(p)
           /\ df # NoDf
           /\ current_file_path # NoPath
           /\ p # current_file_path) =>
              UNCHANGED <<prompts, appVars, settingsVars>>]_vars

\* C10 witness: B is open and watched, and the last signal delivered since
\* B was opened was one for another file, dropped without reading its mtime.
C10_Witness ==
    /\ df # NoDf
    /\ df.src = current_file_path
    /\ watched = {current_file_path}
    /\ seenNotif.path \in Paths \ {current_file_path}
    /\ seenNotif.mtime = NoMtime
    /\ prompts = <<>>


(* ------------------------------------------------------------------------ *)
(* C11 .. C20                                                                *)
(* ------------------------------------------------------------------------ *)

\* C11: when the reload prompt for a changed file is answered Yes and the
\* file reads, the installed dataset is the file's content of that moment
\* (its height and its width), the offset is kept when it is below the new
\* height, the status reports rows offset+1 to min(offset+PAGE_SIZE, height)
\* of height, the file is the one watched path and its mtime of that moment
\* is the stored mtime.
C11_ConfirmedReload ==
    [][ConfirmReload /\ Readable(PromptTop.path) =>
        LET p == PromptTop.path
            h == fs[p].height
        IN  /\ df' = [src |-> p, height |-> h, width |-> fs[p].width]
            /\ (current_offset < h => current_offset' = current_offset)
            /\ status' = [kind |-> "showing", path |-> NoPath,
                          start |-> current_offset' + 1,
                          end |-> Min(current_offset' + PAGE_SIZE, h),
                          total |-> h]
            /\ watched' = {p}
            /\ current_file_mtime' = fs[p].mtime]_vars

\* A prompt was raised for a file rewritten while page two was shown, and
\* the state is the one a Yes answer leaves: the two-column table installed,
\* page two still shown, the mtime the handler read stored, the file watched.
C11_Witness ==
    /\ prompts = <<>>
    /\ seenNotif.reloaded
    /\ seenNotif.path = current_file_path
    /\ seenNotif.mtime = current_file_mtime
    /\ current_file_mtime > 0
    /\ df = [src |-> current_file_path, height |-> 2 * PAGE_SIZE, width |-> 2]
    /\ fs[current_file_path].height = df.height
    /\ current_offset = PAGE_SIZE
    /\ status = StatusShowing(PAGE_SIZE, 2 * PAGE_SIZE)
    /\ watched = {current_file_path}

\* C12: an open (by the dialog or the recent-files menu) of a file other
\* than the current one that reads installs that file's table, sets the
\* offset to 0, leaves that path the one watched path with its mtime of the
\* moment stored, puts the path first in the recent-files list and persists
\* it as the last file.
C12_OpenInstalls ==
    [][\A p \in Paths :
          (/\ p # current_file_path
           /\ Readable(p)
           /\ OpenFile(p) \/ OpenRecent(p)) =>
              /\ df' = [src |-> p, height |-> fs[p].height,
                        width |-> fs[p].width]
              /\ current_offset' = 0
              /\ current_file_path' = p
              /\ watched' = {p}
              /\ current_file_mtime' = fs[p].mtime
              /\ recentFiles' # <<>>
              /\ recentFiles'[1] = p
              /\ lastFilePath' = p]_vars

\* File b, of more than one page, was opened after file a: b is installed
\* at offset 0, watched, first in the list and the last file.
C12_Witness ==
    /\ recentFiles = <<"b", "a">>
    /\ df = [src |-> "b", height |-> fs["b"].height, width |-> fs["b"].width]
    /\ df.height > PAGE_SIZE
    /\ current_file_path = "b"
    /\ current_offset = 0
    /\ status = StatusShowing(0, df.height)
    /\ watched = {"b"}
    /\ current_file_mtime = fs["b"].mtime
    /\ lastFilePath = "b"
    /\ seenNotif = NoNotif

\* C13: in every reachable state the recent-files list has at most
\* MAX_RECENT_FILES entries and holds no path twice, whatever successful
\* loads, failed loads and clears came before.
C13_RecentBounded ==
    /\ Len(recentFiles) <= MAX_RECENT_FILES
    /\ \A i, j \in 1..Len(recentFiles) :
          recentFiles[i] = recentFiles[j] => i = j

\* Both new files were opened over a full list, and the last load failed.
C13_Witness ==
    /\ Len(recentFiles) = MAX_RECENT_FILES
    /\ recentFiles[1] = "p12"
    /\ recentFiles[2] = "p11"
    /\ status.kind = "error"

\* The list a recording of p must leave, by the rule of the claim.
RecordedFirst(recent, p) ==
    LET rest == SelectSeq(recent, LAMBDA x : x # p)
        all  == <<p>> \o rest
    IN  SubSeq(all, 1, Min(Len(all), MAX_RECENT_FILES))

\* A load of p that reads, by any of the user's ways to load.
GoodLoad(p) ==
    /\ Readable(p)
    /\ \/ OpenFile(p)
       \/ OpenRecent(p)
       \/ ReopenLastFile /\ lastFilePath = p

\* C14: a load that reads leaves the list as: the path first, then the
\* earlier entries other than that path in their earlier order, cut to
\* MAX_RECENT_FILES; over a full list without the path, exactly the last
\* (least recent) entry goes.
C14_RecordPath ==
    [][\A p \in ManyPaths :
          GoodLoad(p) =>
              /\ recentFiles' = RecordedFirst(recentFiles, p)
              /\ (/\ Len(recentFiles) = MAX_RECENT_FILES
                  /\ \A i \in 1..Len(recentFiles) : recentFiles[i] # p) =>
                     recentFiles' =
                        <<p>> \o SubSeq(recentFiles, 1,
                                        MAX_RECENT_FILES - 1)]_vars

\* A new file was recorded over a full list (the tail p10 went), then an
\* entry from the middle of the list was recorded again.
C14_Witness ==
    recentFiles = <<"p04", "p11", "p01", "p02", "p03", "p05", "p06", "p07",
                    "p08", "p09">>

\* C15: the writes to the session store are idempotent: recording a path
\* as recent twice in a row, recording the same last position twice, and
\* clearing twice each leave what doing it once leaves.
C15_Idempotent ==
    /\ \A p \in ManyPaths :
          AddToRecentFiles(AddToRecentFiles(recentFiles, p), p)
              = AddToRecentFiles(recentFiles, p)
    /\ LET once == SettingsAtClose(current_file_path, current_offset,
                                   lastFilePath, lastFileOffset)
       IN  SettingsAtClose(current_file_path, current_offset,
                           once[1], once[2]) = once
    /\ RecentAfterClear(RecentAfterClear(recentFiles))
          = RecentAfterClear(recentFiles)

\* The store after a new file was recorded over a full list and the viewer
\* was then closed on the second page of p01.
C15_Witness ==
    /\ Len(recentFiles) = MAX_RECENT_FILES
    /\ recentFiles[1] = "p01"
    /\ recentFiles[2] = "p11"
    /\ lastFilePath = "p01"
    /\ lastFileOffset = PAGE_SIZE
    /\ current_file_path = NoPath

\* C16: clearing the recent-files list empties that list and nothing else:
\* the persisted last file and last offset, the installed dataset, the
\* current offset and the watch stay as they were.
C16_ClearFrame ==
    [][ClearRecentFiles =>
          /\ recentFiles' = <<>>
          /\ UNCHANGED <<lastFilePath, lastFileOffset, df, current_offset,
                         current_file_path, watched>>]_vars

\* The list was cleared while a file was shown on a later page: the list is
\* empty although a last file is persisted, and the file is still installed
\* and watched.
C16_Witness ==
    /\ recentFiles = <<>>
    /\ lastFilePath \in Paths
    /\ df # NoDf
    /\ df.src = lastFilePath
    /\ current_offset > 0
    /\ watched = {current_file_path}

\* C17: a close with a file loaded persists the path and the offset current
\* at that moment, and reopen-last in the new session, before any other
\* load and with the file still readable, installs that persisted path at
\* that persisted offset.
C17_SessionRoundTrip ==
    [][/\ (Relaunch /\ current_file_path # NoPath) =>
             /\ lastFilePath' = current_file_path
             /\ lastFileOffset' = current_offset
       /\ (/\ ReopenLastFile
           /\ current_file_path = NoPath
           /\ lastFilePath # NoPath
           /\ Readable(lastFilePath)) =>
             /\ current_file_path' = lastFilePath
             /\ current_offset' = lastFileOffset
             /\ df' = [src |-> lastFilePath,
                       height |-> fs[lastFilePath].height,
                       width |-> fs[lastFilePath].width]
             /\ UNCHANGED <<lastFilePath, lastFileOffset>>]_vars

\* The viewer was closed on the third page of a file and the file was
\* reopened in the next session: it is installed at the persisted offset.
C17_Witness ==
    /\ lastFilePath \in Paths
    /\ lastFileOffset = 2 * PAGE_SIZE
    /\ current_file_path = lastFilePath
    /\ current_offset = lastFileOffset
    /\ df = [src |-> lastFilePath, height |-> 2 * PAGE_SIZE + 1, width |-> 1]
    /\ fs[lastFilePath].mtime = 0
    /\ status = StatusShowing(2 * PAGE_SIZE, 2 * PAGE_SIZE + 1)
    /\ seenNotif = NoNotif

\* C18: in every state Next is enabled exactly when a dataset is installed
\* and offset + PAGE_SIZE < height, Previous exactly when a dataset is
\* installed and offset > 0; with no dataset both are disabled.
C18_ButtonsInStep ==
    /\ btnNext = (df # NoDf /\ current_offset + PAGE_SIZE < df.height)
    /\ btnPrev = (df # NoDf /\ current_offset > 0)
    /\ df = NoDf => ~btnNext /\ ~btnPrev

\* The last page of a dataset of exactly two pages, reached by Next: the
\* page ends on the last row, Next is disabled and Previous enabled.
C18_Witness ==
    /\ df # NoDf
    /\ current_offset > 0
    /\ current_offset + PAGE_SIZE = df.height
    /\ status = StatusShowing(current_offset, df.height)
    /\ btnPrev
    /\ ~btnNext

\* The offset is a valid page start of the installed dataset.
ValidOffset == df # NoDf /\ 0 <= current_offset /\ current_offset < df.height

\* C19 as claimed: from every valid offset, Next and then Previous end on
\* the offset they started from: away from the boundaries by moving one
\* page on and back, from offset 0 at offset 0, and from the last page at
\* the last page.
C19_NextThenPreviousAsClaimed ==
    ValidOffset =>
        PrevOffset(NextOffset(df, current_offset)) = current_offset

\* C19: from every valid offset with a page after it (offset 0 included),
\* Next and then Previous end on the offset they started from; on the last
\* page Next does not move and Previous then goes one page back, stopping
\* at 0.
C19_NextThenPrevious ==
    ValidOffset =>
        IF current_offset + PAGE_SIZE < df.height
        THEN PrevOffset(NextOffset(df, current_offset)) = current_offset
        ELSE PrevOffset(NextOffset(df, current_offset))
                 = Max(0, current_offset - PAGE_SIZE)

\* The third and last page of a dataset, reached by Next: Next is disabled
\* and would not move, Previous leads to the second page.
C19_Witness ==
    /\ ValidOffset
    /\ current_offset = 2 * PAGE_SIZE
    /\ df.height = 2 * PAGE_SIZE + 1
    /\ ~btnNext
    /\ btnPrev
    /\ NextOffset(df, current_offset) = current_offset
    /\ PrevOffset(current_offset) = PAGE_SIZE

\* C20: a signal for the current file delivered when the file is gone (its
\* mtime cannot be read) stops the watching (no path is watched after it),
\* shows the "File not found" status, raises no prompt and leaves the
\* installed dataset and the offset as they were.
C20_VanishedFile ==
    [][\A p \in Paths :
          (/\ HandleFileChange(p)
           /\ ~IgnoresSignal(p)
           /\ ~Exists(p)) =>
              /\ watched' = {}
              /\ status' = [kind |-> "notfound", path |-> p, start |-> 0,
                            end |-> 0, total |-> 0]
              /\ prompts' = prompts
              /\ UNCHANGED <<df, current_offset>>]_vars

\* The file shown on a later page was removed and its signal handled: the
\* status says so, nothing is watched, the dataset and the offset are kept.
C20_Witness ==
    /\ status = StatusNotFound(current_file_path)
    /\ ~Exists(current_file_path)
    /\ watched = {}
    /\ prompts = <<>>
    /\ df # NoDf
    /\ df.src = current_file_path
    /\ current_offset > 0


(* ------------------------------------------------------------------------ *)
(* C21 .. C26                                                                *)
(* ------------------------------------------------------------------------ *)

\* A load of p that reads: an open, a reopen-last or a confirmed reload.
AnyGoodLoad(p) ==
    /\ Readable(p)
    /\ \/ OpenFile(p)
       \/ OpenRecent(p)
       \/ ReopenLastFile /\ lastFilePath = p
       \/ ConfirmReload /\ PromptTop.path = p

\* C21: a load is one uninterrupted step, and the later load wins: every
\* load that reads leaves its own file installed (with the content of that
\* moment), watched (alone) and first in the recent-files list, and no step
\* that is not such a load installs a dataset, adds a watch or changes the
\* list other than by emptying it; so dataset, watch and list head always
\* belong to the last load that read, however opens, reopens and confirmed
\* reloads interleave.
C21_LaterLoadWins ==
    [][/\ \A p \in Paths :
             AnyGoodLoad(p) =>
                 /\ df' = [src |-> p, height |-> fs[p].height,
                           width |-> fs[p].width]
                 /\ current_file_path' = p
                 /\ watched' = {p}
                 /\ recentFiles' # <<>>
                 /\ recentFiles'[1] = p
       /\ \/ /\ df' \in {df, NoDf}
             /\ watched' \subseteq watched
             /\ recentFiles' \in {recentFiles, <<>>}
          \/ \E p \in Paths : AnyGoodLoad(p)]_vars

\* Two prompts were open for a rewritten file when the inner one was
\* answered Yes, in a session that had opened the other file first: the
\* reloaded file is installed, watched and first in the list while the
\* outer prompt still waits.
C21_Witness ==
    /\ Len(prompts) = 1
    /\ seenNotif.reloaded
    /\ Len(recentFiles) = 2
    /\ recentFiles[1] = current_file_path
    /\ df = [src |-> current_file_path,
             height |-> fs[current_file_path].height,
             width |-> fs[current_file_path].width]
    /\ watched = {current_file_path}
    /\ current_file_mtime = fs[current_file_path].mtime
    /\ current_file_mtime > 0

\* C22: the persisted offset belongs to the persisted path: every step that
\* changes lastFilePath or lastFileOffset leaves a pair that is current
\* together just before or just after that step, so the pair reopen-last
\* reads is never the path of one file with the offset saved for another.
C22_PairedOffset ==
    [][(lastFilePath' # lastFilePath \/ lastFileOffset' # lastFileOffset) =>
          \/ /\ lastFilePath' = current_file_path
             /\ lastFileOffset' = current_offset
          \/ /\ lastFilePath' = current_file_path'
             /\ lastFileOffset' = current_offset']_vars

\* C23: at most one reload confirmation is pending at any time: a signal
\* delivered while a prompt is unanswered opens no second prompt.
C23_OnePrompt == Len(prompts) <= 1

\* C24: the display matches the dataset slot in every state: with no
\* dataset installed the table shows no window and the column list shows no
\* columns; with a dataset installed the table shows the slice of that
\* dataset at the current offset and the column list shows its columns.
C24_DisplayMatchesSlot ==
    /\ df = NoDf => tableModel = NoModel /\ columnList = NoColumns
    /\ df # NoDf =>
          /\ tableModel = PageModel(df, current_offset)
          /\ columnList = df

\* C25: whenever a path is watched, a dataset is installed, the watched
\* path is the current file path and a modification time is stored; no
\* path is watched while the dataset slot is empty.
C25_WatchImpliesDataset ==
    watched # {} =>
        /\ df # NoDf
        /\ watched = {current_file_path}
        /\ current_file_mtime # NoMtime

\* The watched file was overwritten with bytes that do not decode and the
\* prompt for it is open: the watch is active, the earlier dataset is still
\* installed and its mtime is the stored one.
C25_Witness ==
    /\ watched # {}
    /\ prompts # <<>>
    /\ PromptTop.path \in watched
    /\ ~Readable(PromptTop.path)
    /\ df.src = PromptTop.path
    /\ current_file_mtime < fs[current_file_path].mtime

\* C26: in every state the current offset is a non-negative multiple of
\* PAGE_SIZE, and so is the offset held in the session store, from which
\* reopen-last restores it.
C26_OffsetOnPageStart ==
    /\ current_offset >= 0
    /\ current_offset % PAGE_SIZE = 0
    /\ lastFileOffset >= 0
    /\ lastFileOffset % PAGE_SIZE = 0

\* An offset restored from the session store: the viewer was closed on the
\* third page of a file, and reopen-last then installed a file of one row
\* at the stored offset.
C26_Witness ==
    /\ df # NoDf
    /\ df.height = 1
    /\ lastFilePath = current_file_path
    /\ lastFileOffset = 2 * PAGE_SIZE
    /\ current_offset = lastFileOffset
    /\ seenNotif = NoNotif

=============================================================================
